---- MODULE Spec2Model ----
(***************************************************************************)
(* Attendance event processing engine of the operations dashboard          *)
(* (src/src/lib/googleSheets.ts): repository build, FIFO punch pairing,    *)
(* KPI snapshot, compliance classification and exception detection.        *)
(*                                                                         *)
(* Conventions of the model                                                *)
(*  - A Date is the number of minutes since local midnight of day 0; the   *)
(*    local calendar day is t \div 1440 and the time of day t % 1440.      *)
(*    Sub-minute precision is not modelled.                                *)
(*  - A nullable value is the empty tuple (null) or a one-element tuple.   *)
(*  - Distances are whole metres.                                          *)
(*  - Hours with one decimal (Math.round(h * 10) / 10) are kept as a       *)
(*    whole number of tenths of an hour.                                   *)
(*  - A string that the code takes apart (an employee ID, a punch type, a  *)
(*    distance) is the tuple of its characters; other strings are atoms.   *)
(*                                                                         *)
(* State: records, the events parseCSV has returned so far; response, the  *)
(* answer of the request; sheet, the fetched rows and the line parseCSV    *)
(* reads next; employeeIndex, the employee map while the loop of           *)
(* processSheetData fills it and the number of events it has taken in.     *)
(***************************************************************************)
EXTENDS Integers, Sequences, FiniteSets, TLC

VARIABLES records, response, sheet, employeeIndex

vars == <<records, response, sheet, employeeIndex>>

(***************************************************************************)
(* CONFIG, googleSheets.ts:31-46                                           *)
(***************************************************************************)
WORK_START_HOUR == 9
WORK_START_MINUTE == 0
DISTANCE_THRESHOLD_COMPLIANT == 50
DISTANCE_THRESHOLD_WARNING == 100
OPEN_SESSION_WARNING_HOURS == 8
OPEN_SESSION_CRITICAL_HOURS == 12
LATE_GRACE_PERIOD_MINUTES == 15
\* the literal 200 of the location-breach severity, googleSheets.ts:747
LOCATION_BREACH_CRITICAL == 200
\* the literal 60 of the late-arrival severity, googleSheets.ts:674
LATE_CRITICAL_MINUTES == 60

MinutesPerDay == 24 * 60

(***************************************************************************)
(* Nullable values                                                         *)
(***************************************************************************)
Null == <<>>
Some(v) == <<v>>
IsNull(x) == x = Null
Val(x) == x[1]

(***************************************************************************)
(* Date accessors                                                          *)
(***************************************************************************)
\* formatDateKey: the local calendar day of a Date
formatDateKey(t) == t \div MinutesPerDay
getHours(t) == (t % MinutesPerDay) \div 60
getMinutes(t) == t % 60
\* Date.prototype.toISOString and the parse back (new Date(iso).getTime())
toISOString(t) == <<t \div MinutesPerDay, getHours(t), getMinutes(t)>>
DateParse(iso) == iso[1] * MinutesPerDay + iso[2] * 60 + iso[3]

(***************************************************************************)
(* String functions on tuples of characters. Of the white space (\s) only  *)
(* the blank is modelled.                                                  *)
(***************************************************************************)
LowerLetters == <<"a", "b", "c", "d", "e", "f", "g", "h", "i", "j", "k", "l", "m",
                  "n", "o", "p", "q", "r", "s", "t", "u", "v", "w", "x", "y", "z">>
UpperLetters == <<"A", "B", "C", "D", "E", "F", "G", "H", "I", "J", "K", "L", "M",
                  "N", "O", "P", "Q", "R", "S", "T", "U", "V", "W", "X", "Y", "Z">>
DigitChars == <<"0", "1", "2", "3", "4", "5", "6", "7", "8", "9">>

UpperOf(c) == IF \E i \in 1..26 : LowerLetters[i] = c
              THEN UpperLetters[CHOOSE i \in 1..26 : LowerLetters[i] = c] ELSE c
LowerOf(c) == IF \E i \in 1..26 : UpperLetters[i] = c
              THEN LowerLetters[CHOOSE i \in 1..26 : UpperLetters[i] = c] ELSE c
toUpperCase(str) == [i \in 1..Len(str) |-> UpperOf(str[i])]
toLowerCase(str) == [i \in 1..Len(str) |-> LowerOf(str[i])]

IsSpace(c) == c = " "
RECURSIVE trimStart(_)
trimStart(str) == IF str # <<>> /\ IsSpace(Head(str)) THEN trimStart(Tail(str)) ELSE str
RECURSIVE trimEnd(_)
trimEnd(str) ==
  IF str # <<>> /\ IsSpace(str[Len(str)]) THEN trimEnd(SubSeq(str, 1, Len(str) - 1))
  ELSE str
trim(str) == trimEnd(trimStart(str))
\* replace(/\s+/g, '')
RemoveSpaces(str) == SelectSeq(str, LAMBDA c : ~IsSpace(c))
\* String.prototype.includes
Includes(str, part) ==
  \E i \in 1..(Len(str) - Len(part) + 1) : SubSeq(str, i, i + Len(part) - 1) = part

IsDigit(c) == \E i \in 1..10 : DigitChars[i] = c
DigitValue(c) == (CHOOSE i \in 1..10 : DigitChars[i] = c) - 1
RECURSIVE LeadingDigits(_)
LeadingDigits(str) ==
  IF str # <<>> /\ IsDigit(Head(str)) THEN <<Head(str)>> \o LeadingDigits(Tail(str))
  ELSE <<>>
RECURSIVE DigitsValue(_)
DigitsValue(ds) ==
  IF ds = <<>> THEN 0
  ELSE 10 * DigitsValue(SubSeq(ds, 1, Len(ds) - 1)) + DigitValue(ds[Len(ds)])

\* parseFloat for whole numbers: leading blanks, a sign and the longest run
\* of digits are read and what follows is ignored; without a digit the
\* result is NaN, here null
parseFloat(str) ==
  LET t == trimStart(str)
      signed == t # <<>> /\ t[1] \in {"-", "+"}
      ds == LeadingDigits(IF signed THEN Tail(t) ELSE t)
  IN IF ds = <<>> THEN Null
     ELSE Some(IF signed /\ t[1] = "-" THEN 0 - DigitsValue(ds) ELSE DigitsValue(ds))

(***************************************************************************)
(* normalizeEmployeeId, googleSheets.ts:210-221                            *)
(***************************************************************************)
\* the typo prefix replaced only where it is written in capitals
normalizeWithExactPrefix(raw) ==
  IF raw = <<>> THEN <<>>
  ELSE LET stripped == RemoveSpaces(trim(raw))
           fixed == IF Len(stripped) >= 4 /\ SubSeq(stripped, 1, 4) = <<"L", "Y", "L", "B">>
                    THEN <<"A", "Y", "L", "B">> \o SubSeq(stripped, 5, Len(stripped))
                    ELSE stripped
       IN toUpperCase(fixed)

normalizeEmployeeId(raw) ==
  IF raw = <<>> THEN <<>>
  ELSE LET stripped == RemoveSpaces(trim(raw))
           \* replace(/^LYLB/i, 'AYLB')
           fixed == IF /\ Len(stripped) >= 4
                       /\ toUpperCase(SubSeq(stripped, 1, 4)) = <<"L", "Y", "L", "B">>
                    THEN <<"A", "Y", "L", "B">> \o SubSeq(stripped, 5, Len(stripped))
                    ELSE stripped
       IN toUpperCase(fixed)

(***************************************************************************)
(* parseTimestamp, googleSheets.ts:261-284. A timestamp cell is given as   *)
(* the patterns read it: form "dmy" (DD/MM/YYYY HH:mm) or "iso"            *)
(* (YYYY-MM-DDTHH:mm) with its numbers, "text" for a cell neither pattern  *)
(* matches and "empty". All dates lie in the year whose 1 January is day 0.*)
(***************************************************************************)
DaysBeforeMonth == <<0, 31, 59, 90, 120, 151, 181, 212, 243, 273, 304, 334>>
DaysInMonth == <<31, 28, 31, 30, 31, 30, 31, 31, 30, 31, 30, 31>>

\* new Date(year, month - 1, day, hour, minute): a day, hour or minute
\* beyond its range carries over
LocalDate(month, day, hour, minute) ==
  (DaysBeforeMonth[month] + day - 1) * MinutesPerDay + hour * 60 + minute

\* new Date(raw) of an ISO string is a valid date
IsValidIso(raw) ==
  /\ raw.month >= 1 /\ raw.month <= 12
  /\ raw.day >= 1 /\ raw.day <= DaysInMonth[raw.month]
  /\ raw.hour <= 23 /\ raw.minute <= 59

parseTimestamp(raw) ==
  IF raw.form = "empty" THEN Null
  ELSE IF /\ raw.form = "dmy"
          /\ raw.day >= 1 /\ raw.day <= 31 /\ raw.month >= 1 /\ raw.month <= 12
       THEN Some(LocalDate(raw.month, raw.day, raw.hour, raw.minute))
       ELSE IF raw.form = "iso" /\ IsValidIso(raw)
            THEN Some(LocalDate(raw.month, raw.day, raw.hour, raw.minute))
            ELSE Null

(***************************************************************************)
(* parseRow, googleSheets.ts:223-259. The values of a row are named by     *)
(* their column (values[columnMap.x] || ''); parseCSVLine has trimmed      *)
(* them. In a row of a sheet the name is a tuple of characters as well.    *)
(***************************************************************************)
parseRow(values) ==
  LET name == values.name
      employeeId == normalizeEmployeeId(values.employeeId)
  IN IF name = <<>> \/ employeeId = <<>> \/ values.timestamp.form = "empty" THEN Null
     ELSE LET punchType == IF Includes(toLowerCase(values.punchType), <<"o", "u", "t">>)
                           THEN "Punch Out" ELSE "Punch In"
              timestamp == parseTimestamp(values.timestamp)
              distanceMeters == IF values.distance # <<>> THEN parseFloat(values.distance)
                                ELSE Null
          IN IF IsNull(timestamp) THEN Null
             ELSE Some([name |-> name,
                        employeeId |-> employeeId,
                        punchType |-> punchType,
                        location |-> values.location,
                        timestamp |-> Val(timestamp),
                        manualLocation |-> values.manualLocation,
                        distanceMeters |-> distanceMeters])

(***************************************************************************)
(* Array.prototype.sort with a comparator is stable: an element is placed  *)
(* after every element that does not compare greater than it.              *)
(***************************************************************************)
\* the records left in their input order
KeepInputOrder(s) == s

\* a sort that is not stable: of two records with the same timestamp the
\* later one of the input comes first
RECURSIVE SortUnstable(_)
SortUnstable(s) ==
  IF s = <<>> THEN <<>>
  ELSE LET init == SortUnstable(SubSeq(s, 1, Len(s) - 1))
           x == s[Len(s)]
           k == Cardinality({i \in 1..Len(init) : init[i].timestamp < x.timestamp})
       IN SubSeq(init, 1, k) \o <<x>> \o SubSeq(init, k + 1, Len(init))

RECURSIVE SortByTimestamp(_)
SortByTimestamp(s) ==
  IF s = <<>> THEN <<>>
  ELSE LET init == SortByTimestamp(SubSeq(s, 1, Len(s) - 1))
           x == s[Len(s)]
           k == Cardinality({i \in 1..Len(init) : init[i].timestamp <= x.timestamp})
       IN SubSeq(init, 1, k) \o <<x>> \o SubSeq(init, k + 1, Len(init))

(***************************************************************************)
(* processSheetData, googleSheets.ts:298-354                               *)
(***************************************************************************)
\* the name of every record that has one stored, whatever is stored
IndexEmployeeLatestName(prev, record) ==
  LET id == record.employeeId
      known == {i \in 1..Len(prev) : prev[i].id = id}
  IN IF known = {}
     THEN Append(prev, [id |-> id,
                        name |-> IF Len(record.name) > 0 THEN record.name ELSE id])
     ELSE LET i == CHOOSE k \in known : TRUE
          IN IF Len(record.name) > 0 THEN [prev EXCEPT ![i].name = record.name] ELSE prev

\* lines 312-326: the employee map after one more record has been taken in
\* (a name is empty when its length is 0)
IndexEmployee(prev, record) ==
  LET id == record.employeeId
      known == {i \in 1..Len(prev) : prev[i].id = id}
  IN IF known = {}
     THEN Append(prev, [id |-> id,
                        name |-> IF Len(record.name) > 0 THEN record.name ELSE id])
     ELSE LET i == CHOOSE k \in known : TRUE
              existing == prev[i]
          IN IF Len(existing.name) = 0 /\ Len(record.name) > 0
             THEN [prev EXCEPT ![i].name = record.name]
             ELSE IF existing.name = existing.id /\ Len(record.name) > 0
             THEN [prev EXCEPT ![i].name = record.name]
             ELSE prev

\* the employee map after the records s have been taken in, in order
RECURSIVE BuildEmployees(_)
BuildEmployees(s) ==
  IF s = <<>> THEN <<>>
  ELSE IndexEmployee(BuildEmployees(SubSeq(s, 1, Len(s) - 1)), s[Len(s)])

EmployeeIds(s) == {s[i].employeeId : i \in 1..Len(s)}
DateKeys(s) == {formatDateKey(s[i].timestamp) : i \in 1..Len(s)}

processSheetData(recs) ==
  LET sortedRecords == SortByTimestamp(recs)
      emps == BuildEmployees(sortedRecords)
  IN [punches |-> sortedRecords,
      employees |-> [id \in EmployeeIds(recs) |->
                       (CHOOSE e \in {emps[i] : i \in 1..Len(emps)} : e.id = id).name],
      punchesByEmployee |-> [id \in EmployeeIds(recs) |->
                       SelectSeq(sortedRecords, LAMBDA p : p.employeeId = id)],
      punchesByDate |-> [d \in DateKeys(recs) |->
                       SelectSeq(sortedRecords, LAMBDA p : formatDateKey(p.timestamp) = d)]]

\* a missing key answered with the list of some other key
GetOrAnyOther(map, key) ==
  IF key \in DOMAIN map THEN map[key]
  ELSE IF DOMAIN map = {} THEN <<>>
  ELSE map[CHOOSE k \in DOMAIN map : TRUE]

\* Map.get(key) || []
GetOrEmpty(map, key) == IF key \in DOMAIN map THEN map[key] ELSE <<>>

(***************************************************************************)
(* Grouping of a punch list by employee: the Map built with has/set/push   *)
(* iterates in order of first appearance.                                  *)
(***************************************************************************)
RECURSIVE EmployeeOrder(_)
EmployeeOrder(s) ==
  IF s = <<>> THEN <<>>
  ELSE LET prev == EmployeeOrder(SubSeq(s, 1, Len(s) - 1))
           id == s[Len(s)].employeeId
       IN IF \E i \in 1..Len(prev) : prev[i] = id THEN prev ELSE Append(prev, id)

PunchesOf(s, id) == SelectSeq(s, LAMBDA p : p.employeeId = id)

RECURSIVE Reverse(_)
Reverse(s) == IF s = <<>> THEN <<>> ELSE Append(Reverse(Tail(s)), Head(s))

MinOf(S) == CHOOSE x \in S : \A y \in S : x <= y

(***************************************************************************)
(* calculateEmployeeShifts, googleSheets.ts:771-838                        *)
(* Positions are 1-based: the code's index i is position i + 1.            *)
(***************************************************************************)
\* the punch after position i taken as the end whatever its type
ShiftEndAtNextPunch(sorted, i) == IF i < Len(sorted) THEN i + 1 ELSE 0

\* lines 805-811: the first Punch Out after position i, 0 when there is none
ShiftEndAfter(sorted, i) ==
  LET outs == {j \in (i + 1)..Len(sorted) : sorted[j].punchType = "Punch Out"}
  IN IF outs = {} THEN 0 ELSE MinOf(outs)

\* the cursor moved by one whatever was paired
ShiftCursorStepsByOne(i, j) == i + 1

\* lines 808 and 831: where the cursor goes after the Punch In at position i,
\* j the position of its Punch Out or 0
ShiftCursorAfter(i, j) == IF j # 0 THEN j + 1 ELSE i + 1

\* lines 798-835: the while loop from cursor i; each pushed shift as <<i, j>>,
\* j = 0 for a shift without end
RECURSIVE PairPunches(_, _)
PairPunches(sorted, i) ==
  IF i > Len(sorted) THEN <<>>
  ELSE IF sorted[i].punchType = "Punch In"
       THEN LET j == ShiftEndAfter(sorted, i)
            IN <<<<i, j>>>> \o PairPunches(sorted, ShiftCursorAfter(i, j))
       ELSE PairPunches(sorted, i + 1)

\* lines 813-829: the Shift record pushed for the pair <<i, j>>
MakeShift(sorted, pair) ==
  LET punch == sorted[pair[1]]
      hasEnd == pair[2] # 0
      shiftEnd == sorted[IF hasEnd THEN pair[2] ELSE pair[1]]
  IN [shiftStart |-> toISOString(punch.timestamp),
      shiftEnd |-> IF hasEnd THEN Some(toISOString(shiftEnd.timestamp)) ELSE Null,
      durationMinutes |-> IF hasEnd
                          THEN Some(shiftEnd.timestamp - punch.timestamp)
                          ELSE Null,
      distanceStart |-> punch.distanceMeters,
      distanceEnd |-> IF hasEnd THEN shiftEnd.distanceMeters ELSE Null,
      onSiteStart |-> IF ~IsNull(punch.distanceMeters)
                      THEN Val(punch.distanceMeters) <= DISTANCE_THRESHOLD_COMPLIANT
                      ELSE FALSE,
      onSiteEnd |-> IF hasEnd /\ ~IsNull(shiftEnd.distanceMeters)
                    THEN Some(Val(shiftEnd.distanceMeters) <= DISTANCE_THRESHOLD_COMPLIANT)
                    ELSE Null]

\* the date range cut off at the instant of the call
ShiftWindowUntilNow(data, employeeId, startDate, endDate, now) ==
  LET empPunches == GetOrEmpty(data.punchesByEmployee, employeeId)
      start == IF IsNull(startDate) THEN 0 ELSE Val(startDate) * MinutesPerDay
      endDay == IF IsNull(endDate) THEN formatDateKey(now) ELSE Val(endDate)
      end == endDay * MinutesPerDay + (MinutesPerDay - 1)
      filteredPunches ==
        IF ~IsNull(startDate) \/ ~IsNull(endDate)
        THEN SelectSeq(empPunches, LAMBDA p : /\ p.timestamp >= start
                                              /\ p.timestamp <= end
                                              /\ p.timestamp <= now)
        ELSE empPunches
  IN SortByTimestamp(filteredPunches)

\* lines 777-795: the employee's punches of the date range, sorted.
\* startDate and endDate are nullable calendar days, now is Date.now().
ShiftWindow(data, employeeId, startDate, endDate, now) ==
  LET empPunches == GetOrEmpty(data.punchesByEmployee, employeeId)
      start == IF IsNull(startDate) THEN 0 ELSE Val(startDate) * MinutesPerDay
      endDay == IF IsNull(endDate) THEN formatDateKey(now) ELSE Val(endDate)
      end == endDay * MinutesPerDay + (MinutesPerDay - 1)
      filteredPunches ==
        IF ~IsNull(startDate) \/ ~IsNull(endDate)
        THEN SelectSeq(empPunches, LAMBDA p : p.timestamp >= start /\ p.timestamp <= end)
        ELSE empPunches
  IN SortByTimestamp(filteredPunches)

calculateEmployeeShifts(data, employeeId, startDate, endDate, now) ==
  LET sorted == ShiftWindow(data, employeeId, startDate, endDate, now)
      pairs == PairPunches(sorted, 1)
      shifts == [k \in 1..Len(pairs) |-> MakeShift(sorted, pairs[k])]
  IN Reverse(shifts)

(***************************************************************************)
(* calculateWorkingHours, googleSheets.ts:404-460                          *)
(***************************************************************************)
\* the last Punch Out after position i instead of the first
HoursLastOutAfter(sorted, i) ==
  LET outs == {j \in (i + 1)..Len(sorted) : sorted[j].punchType = "Punch Out"}
  IN IF outs = {} THEN 0 ELSE CHOOSE x \in outs : \A y \in outs : y <= x

\* lines 434-443: the first Punch Out after position i, 0 when there is none
HoursOutAfter(sorted, i) ==
  LET outs == {j \in (i + 1)..Len(sorted) : sorted[j].punchType = "Punch Out"}
  IN IF outs = {} THEN 0 ELSE MinOf(outs)

\* lines 437-438: what a paired In/Out adds to totalMinutes
PairedMinutes(punch, out) == out.timestamp - punch.timestamp

\* lines 427-453: the while loop of one employee from cursor i
RECURSIVE HoursScan(_, _)
HoursScan(sorted, i) ==
  IF i > Len(sorted) THEN [totalMinutes |-> 0, openSessions |-> 0]
  ELSE IF sorted[i].punchType = "Punch In"
       THEN LET j == HoursOutAfter(sorted, i)
            IN IF j # 0
               THEN LET rest == HoursScan(sorted, j + 1)
                    IN [rest EXCEPT !.totalMinutes =
                          @ + PairedMinutes(sorted[i], sorted[j])]
               ELSE LET rest == HoursScan(sorted, i + 1)
                    IN [rest EXCEPT !.openSessions = @ + 1]
       ELSE HoursScan(sorted, i + 1)

\* lines 420-454: the loop over the employees ids[k..]
RECURSIVE HoursOfEmployees(_, _, _)
HoursOfEmployees(punches, ids, k) ==
  IF k > Len(ids) THEN [totalMinutes |-> 0, openSessions |-> 0]
  ELSE LET one == HoursScan(SortByTimestamp(PunchesOf(punches, ids[k])), 1)
           rest == HoursOfEmployees(punches, ids, k + 1)
       IN [totalMinutes |-> one.totalMinutes + rest.totalMinutes,
           openSessions |-> one.openSessions + rest.openSessions]

\* totalHours is kept in minutes (totalHours = totalMinutes / 60)
calculateWorkingHours(punches) == HoursOfEmployees(punches, EmployeeOrder(punches), 1)

(***************************************************************************)
(* countLateArrivals, googleSheets.ts:462-484                              *)
(***************************************************************************)
lateThreshold == WORK_START_HOUR * 60 + WORK_START_MINUTE + LATE_GRACE_PERIOD_MINUTES
punchMinutesOf(punch) == getHours(punch.timestamp) * 60 + getMinutes(punch.timestamp)

countLateArrivals(punches) ==
  LET punchIns == SelectSeq(punches, LAMBDA p : p.punchType = "Punch In")
      firstOf(id) == PunchesOf(punchIns, id)[1]
  IN Cardinality({id \in EmployeeIds(punchIns) :
                    punchMinutesOf(firstOf(id)) > lateThreshold})

(***************************************************************************)
(* calculateKPIs, googleSheets.ts:364-402                                  *)
(***************************************************************************)
\* Math.round(totalHours * 10), the hours in tenths, from the minutes
RoundTenths(totalMinutes) == (totalMinutes + 3) \div 6
\* the percentage cut off to a whole number instead of rounded
TruncPct(a, b) == (100 * a) \div b
\* Math.round((a / b) * 100)
RoundPct(a, b) == (200 * a + b) \div (2 * b)

calculateKPIs(data, dateStr, now) ==
  LET targetDate == IF IsNull(dateStr) THEN formatDateKey(now) ELSE Val(dateStr)
      dayPunches == GetOrEmpty(data.punchesByDate, targetDate)
      activeEmployeeIds ==
        {dayPunches[i].employeeId :
           i \in {k \in 1..Len(dayPunches) : dayPunches[k].punchType = "Punch In"}}
      hours == calculateWorkingHours(dayPunches)
      punchesWithDistance ==
        SelectSeq(dayPunches, LAMBDA p : ~IsNull(p.distanceMeters))
      compliantPunches ==
        SelectSeq(punchesWithDistance,
                  LAMBDA p : Val(p.distanceMeters) <= DISTANCE_THRESHOLD_COMPLIANT)
      compliancePct ==
        IF Len(punchesWithDistance) > 0
        THEN RoundPct(Len(compliantPunches), Len(punchesWithDistance))
        ELSE 100
      lateArrivals == countLateArrivals(dayPunches)
      locationBreaches ==
        Len(SelectSeq(punchesWithDistance,
                      LAMBDA p : Val(p.distanceMeters) > DISTANCE_THRESHOLD_WARNING))
  IN [activeEmployeesCount |-> Cardinality(activeEmployeeIds),
      totalWorkingHoursToday |-> RoundTenths(hours.totalMinutes),
      onSiteCompliancePct |-> compliancePct,
      exceptionsCount |-> hours.openSessions + lateArrivals + locationBreaches,
      serverTimestamp |-> toISOString(now)]

(***************************************************************************)
(* calculateHourlyActivity, googleSheets.ts:490-524                        *)
(***************************************************************************)
\* `${String(h).padStart(2, '0')}:00`: the label of hour h as its two digits
HourLabel(h) == <<h \div 10, h % 10>>
\* parseInt(hour) of such a label
ParseHour(label) == label[1] * 10 + label[2]

\* the punches of the hour counted whatever their type
CountInHourOfAnyType(dayPunches, label, isIn) ==
  Cardinality({k \in 1..Len(dayPunches) :
                 HourLabel(getHours(dayPunches[k].timestamp)) = label})

\* lines 503-512: the punches of the day counted under the label of their hour
CountInHour(dayPunches, label, isIn) ==
  Cardinality({k \in 1..Len(dayPunches) :
                 /\ HourLabel(getHours(dayPunches[k].timestamp)) = label
                 /\ (dayPunches[k].punchType = "Punch In") = isIn})

calculateHourlyActivity(data, dateStr, now) ==
  LET targetDate == IF IsNull(dateStr) THEN formatDateKey(now) ELSE Val(dateStr)
      dayPunches == GetOrEmpty(data.punchesByDate, targetDate)
      hourlyMap == [n \in 1..24 |->
                      [hour |-> HourLabel(n - 1),
                       punchIn |-> CountInHour(dayPunches, HourLabel(n - 1), TRUE),
                       punchOut |-> CountInHour(dayPunches, HourLabel(n - 1), FALSE)]]
  IN SelectSeq(hourlyMap, LAMBDA e : ParseHour(e.hour) >= 6 /\ ParseHour(e.hour) <= 22)

(***************************************************************************)
(* calculateTopWorkload, googleSheets.ts:530-567                           *)
(***************************************************************************)
\* lines 551-561: the loop over the employees ids[k..]
RECURSIVE WorkloadsOfEmployees(_, _, _, _)
WorkloadsOfEmployees(data, dayPunches, ids, k) ==
  IF k > Len(ids) THEN <<>>
  ELSE LET empId == ids[k]
           rest == WorkloadsOfEmployees(data, dayPunches, ids, k + 1)
       IN IF empId \notin DOMAIN data.employees THEN rest
          ELSE LET hours == calculateWorkingHours(PunchesOf(dayPunches, empId))
               IN <<[employeeId |-> empId,
                     name |-> data.employees[empId],
                     totalHours |-> RoundTenths(hours.totalMinutes)]>> \o rest

\* line 565: a sorts before or together with b
WorkloadBefore(a, b) == b.totalHours - a.totalHours <= 0

RECURSIVE SortWorkloads(_)
SortWorkloads(s) ==
  IF s = <<>> THEN <<>>
  ELSE LET init == SortWorkloads(SubSeq(s, 1, Len(s) - 1))
           x == s[Len(s)]
           k == Cardinality({i \in 1..Len(init) : WorkloadBefore(init[i], x)})
       IN SubSeq(init, 1, k) \o <<x>> \o SubSeq(init, k + 1, Len(init))

\* line 566: Array.prototype.slice(0, limit) for a limit >= 0
SliceTo(s, limit) == SubSeq(s, 1, IF limit < Len(s) THEN limit ELSE Len(s))

calculateTopWorkload(data, dateStr, limit, now) ==
  LET targetDate == IF IsNull(dateStr) THEN formatDateKey(now) ELSE Val(dateStr)
      dayPunches == GetOrEmpty(data.punchesByDate, targetDate)
      workloads == WorkloadsOfEmployees(data, dayPunches, EmployeeOrder(dayPunches), 1)
  IN SliceTo(SortWorkloads(workloads), limit)

(***************************************************************************)
(* calculateLatestLocations, googleSheets.ts:573-629                       *)
(***************************************************************************)
\* a location that cannot be read placed at the origin
parseCoordinatesOrOrigin(location) ==
  IF Len(location) >= 2 /\ ~IsNull(location[1]) /\ ~IsNull(location[2])
  THEN Some([lat |-> Val(location[1]), long |-> Val(location[2])])
  ELSE Some([lat |-> 0, long |-> 0])

\* parseCoordinates: a location is the list of its comma-separated parts,
\* each the parsed number or null where parseFloat gives NaN
parseCoordinates(location) ==
  IF Len(location) >= 2 /\ ~IsNull(location[1]) /\ ~IsNull(location[2])
  THEN Some([lat |-> Val(location[1]), long |-> Val(location[2])])
  ELSE Null

\* the compliant bound taken as exclusive
ComplianceStatusExclusive(distanceMeters) ==
  IF ~IsNull(distanceMeters)
  THEN IF Val(distanceMeters) < DISTANCE_THRESHOLD_COMPLIANT THEN "compliant"
       ELSE IF Val(distanceMeters) <= DISTANCE_THRESHOLD_WARNING THEN "warning"
       ELSE "breach"
  ELSE "unknown"

\* lines 588-598: the compliance status of a nullable distance
ComplianceStatus(distanceMeters) ==
  IF ~IsNull(distanceMeters)
  THEN IF Val(distanceMeters) <= DISTANCE_THRESHOLD_COMPLIANT THEN "compliant"
       ELSE IF Val(distanceMeters) <= DISTANCE_THRESHOLD_WARNING THEN "warning"
       ELSE "breach"
  ELSE "unknown"

RECURSIVE LatestOfEmployees(_, _, _)
LatestOfEmployees(data, ids, k) ==
  IF k > Len(ids) THEN <<>>
  ELSE LET empId == ids[k]
           empPunches == data.punchesByEmployee[empId]
           latest == empPunches[Len(empPunches)]
           coords == parseCoordinates(latest.location)
           rest == LatestOfEmployees(data, ids, k + 1)
       IN IF empId \notin DOMAIN data.employees \/ IsNull(coords) THEN rest
          ELSE <<[employeeId |-> empId,
                  name |-> data.employees[empId],
                  lat |-> Val(coords).lat,
                  long |-> Val(coords).long,
                  status |-> ComplianceStatus(latest.distanceMeters),
                  timestamp |-> toISOString(latest.timestamp),
                  distance |-> latest.distanceMeters]>> \o rest

calculateLatestLocations(data) ==
  LatestOfEmployees(data, EmployeeOrder(data.punches), 1)

(***************************************************************************)
(* calculateExceptions, googleSheets.ts:635-765                            *)
(* A note is the tuple of the fixed text and the number put into it.       *)
(***************************************************************************)
MakeException(empId, name, type, severity, punch, notes) ==
  [id |-> 0,
   employeeId |-> empId,
   name |-> name,
   type |-> type,
   severity |-> severity,
   status |-> "open",
   timestamp |-> toISOString(punch.timestamp),
   locationText |-> IF punch.manualLocation # "" THEN punch.manualLocation ELSE "Unknown",
   distance |-> punch.distanceMeters,
   notes |-> notes]

\* an arrival exactly at the end of the grace period taken as late
IsLateAtGraceEnd(punchMinutes) == punchMinutes >= lateThreshold

\* line 667: whether the first Punch In is a late arrival
IsLate(punchMinutes) == punchMinutes > lateThreshold

\* line 674
LateSeverity(minutesLate) ==
  IF minutesLate > LATE_CRITICAL_MINUTES THEN "critical" ELSE "warning"

\* lines 661-682
LateArrivalExceptions(empId, name, sorted) ==
  LET ins == {i \in 1..Len(sorted) : sorted[i].punchType = "Punch In"}
  IN IF ins = {} THEN <<>>
     ELSE LET firstIn == sorted[MinOf(ins)]
              punchMinutes == punchMinutesOf(firstIn)
              minutesLate == punchMinutes - (WORK_START_HOUR * 60 + WORK_START_MINUTE)
          IN IF IsLate(punchMinutes)
             THEN <<MakeException(empId, name, "OpenSession", LateSeverity(minutesLate),
                                  firstIn, <<"Late arrival by", minutesLate>>)>>
             ELSE <<>>

\* lines 691-697: the first Punch Out after position i, 0 when there is none
SessionOutAfter(sorted, i) ==
  LET outs == {j \in (i + 1)..Len(sorted) : sorted[j].punchType = "Punch Out"}
  IN IF outs = {} THEN 0 ELSE MinOf(outs)

\* a session reported only once it is strictly older than the threshold
IsOpenSessionExceptionStrict(elapsed) == elapsed > OPEN_SESSION_WARNING_HOURS * 60

\* line 702, on the minutes elapsed (hoursOpen = elapsed / 60)
IsOpenSessionException(elapsed) == elapsed >= OPEN_SESSION_WARNING_HOURS * 60

\* line 708
OpenSessionSeverity(elapsed) ==
  IF elapsed >= OPEN_SESSION_CRITICAL_HOURS * 60 THEN "critical" ELSE "warning"

\* line 720: whether a Punch In lies before position i
hasPriorIn(sorted, i) == \E k \in 1..(i - 1) : sorted[k].punchType = "Punch In"

\* lines 685-737: the while loop from cursor i
RECURSIVE SessionScan(_, _, _, _, _)
SessionScan(empId, name, sorted, i, now) ==
  IF i > Len(sorted) THEN <<>>
  ELSE LET punch == sorted[i]
       IN IF punch.punchType = "Punch In"
          THEN LET j == SessionOutAfter(sorted, i)
                   elapsed == now - punch.timestamp
               IN IF j # 0 THEN SessionScan(empId, name, sorted, j + 1, now)
                  ELSE (IF IsOpenSessionException(elapsed)
                        THEN <<MakeException(empId, name, "OpenSession",
                                             OpenSessionSeverity(elapsed), punch,
                                             <<"Open session for", (elapsed + 30) \div 60>>)>>
                        ELSE <<>>)
                       \o SessionScan(empId, name, sorted, i + 1, now)
          ELSE (IF ~hasPriorIn(sorted, i)
                THEN <<MakeException(empId, name, "PunchOutWithoutIn", "warning", punch,
                                     <<"Punch out without preceding punch in", 0>>)>>
                ELSE <<>>)
               \o SessionScan(empId, name, sorted, i + 1, now)

\* a distance exactly at the warning threshold taken as a breach
IsLocationBreachAtThreshold(distanceMeters) ==
  ~IsNull(distanceMeters) /\ Val(distanceMeters) >= DISTANCE_THRESHOLD_WARNING

\* line 741
IsLocationBreach(distanceMeters) ==
  ~IsNull(distanceMeters) /\ Val(distanceMeters) > DISTANCE_THRESHOLD_WARNING

\* line 747
LocationBreachSeverity(d) ==
  IF d > LOCATION_BREACH_CRITICAL THEN "critical" ELSE "warning"

\* lines 739-755, from position i
RECURSIVE LocationBreaches(_, _, _, _)
LocationBreaches(empId, name, sorted, i) ==
  IF i > Len(sorted) THEN <<>>
  ELSE (IF IsLocationBreach(sorted[i].distanceMeters)
        THEN <<MakeException(empId, name, "LocationBreach",
                             LocationBreachSeverity(Val(sorted[i].distanceMeters)),
                             sorted[i],
                             <<"Distance exceeds threshold", Val(sorted[i].distanceMeters)>>)>>
        ELSE <<>>)
       \o LocationBreaches(empId, name, sorted, i + 1)

\* lines 653-756: the loop over the employees ids[k..]
RECURSIVE ExceptionsOfEmployees(_, _, _, _, _)
ExceptionsOfEmployees(data, dayPunches, ids, k, now) ==
  IF k > Len(ids) THEN <<>>
  ELSE LET empId == ids[k]
           rest == ExceptionsOfEmployees(data, dayPunches, ids, k + 1, now)
       IN IF empId \notin DOMAIN data.employees THEN rest
          ELSE LET name == data.employees[empId]
                   sorted == SortByTimestamp(PunchesOf(dayPunches, empId))
               IN LateArrivalExceptions(empId, name, sorted)
                  \o SessionScan(empId, name, sorted, 1, now)
                  \o LocationBreaches(empId, name, sorted, 1)
                  \o rest

\* equal severities ordered oldest first
ExceptionBeforeOldestFirst(a, b) ==
  IF a.severity # b.severity THEN a.severity = "critical"
  ELSE DateParse(a.timestamp) - DateParse(b.timestamp) <= 0

\* lines 759-764: a sorts before or together with b
ExceptionBefore(a, b) ==
  IF a.severity # b.severity THEN a.severity = "critical"
  ELSE DateParse(b.timestamp) - DateParse(a.timestamp) <= 0

RECURSIVE SortExceptions(_)
SortExceptions(s) ==
  IF s = <<>> THEN <<>>
  ELSE LET init == SortExceptions(SubSeq(s, 1, Len(s) - 1))
           x == s[Len(s)]
           k == Cardinality({i \in 1..Len(init) : ExceptionBefore(init[i], x)})
       IN SubSeq(init, 1, k) \o <<x>> \o SubSeq(init, k + 1, Len(init))

calculateExceptions(data, dateStr, now) ==
  LET targetDate == IF IsNull(dateStr) THEN formatDateKey(now) ELSE Val(dateStr)
      dayPunches == GetOrEmpty(data.punchesByDate, targetDate)
      pushed == ExceptionsOfEmployees(data, dayPunches, EmployeeOrder(dayPunches), 1, now)
      exceptions == [k \in 1..Len(pushed) |-> [pushed[k] EXCEPT !.id = k]]
  IN SortExceptions(exceptions)

(***************************************************************************)
(* Inputs                                                                  *)
(***************************************************************************)
MaxEvents == 4
MaxClockEvents == 3
MaxDistanceEvents == 2
MaxWorkloadEvents == 4
MaxComplianceEvents == 4
MaxHourEvents == 3
MaxSheetRows == 2
MaxIndexEvents == 3

NameOf(id) == IF id = "EMP001" THEN "John" ELSE IF id = "EMP002" THEN "Jane" ELSE "Bob"

Punch(id, type, t, d) ==
  [name |-> NameOf(id), employeeId |-> id, punchType |-> type,
   location |-> <<Some(28), Some(77)>>, timestamp |-> t,
   manualLocation |-> "Office HQ", distanceMeters |-> d]

\* day 0 at 09:00, 09:10, 09:20 and 17:00
PairingPunches ==
  {Punch("EMP001", "Punch In", t, Null) : t \in {540, 560}}
  \cup {Punch("EMP001", "Punch Out", t, Null) : t \in {550, 560}}
  \cup {Punch("EMP002", "Punch In", 540, Null), Punch("EMP002", "Punch Out", 1020, Null)}

\* arrivals around 09:15, 10:00 and 22:00 of day 0
ClockPunches ==
  {Punch("EMP001", "Punch In", t, Null) : t \in {555, 556, 600, 601, 1320, 1321}}
  \cup {Punch("EMP001", "Punch Out", t, Null) : t \in {550, 1020}}
  \cup {Punch("EMP002", "Punch In", 601, Null)}

\* distances around 50, 100 and 200 metres
DistancePunches ==
  {Punch("EMP001", "Punch In", 540, d) :
     d \in {Null} \cup {Some(m) : m \in {25, 50, 51, 75, 100, 101, 150, 200, 201}}}
  \cup {Punch("EMP001", "Punch Out", 1020, d) : d \in {Null, Some(150), Some(201)}}
  \cup {[Punch("EMP002", "Punch In", 540, Some(75)) EXCEPT !.location = <<>>]}

\* three employees on day 0: two working 09:00 to 17:00, one 09:00 to 15:00
WorkloadPunches ==
  {Punch(id, "Punch In", 540, Null) : id \in {"EMP001", "EMP002", "EMP003"}}
  \cup {Punch(id, "Punch Out", 1020, Null) : id \in {"EMP001", "EMP002"}}
  \cup {Punch("EMP003", "Punch Out", 900, Null)}

\* day 0 with no distance, 25 m, 50 m and 51 m, and 200 m on day 1
CompliancePunches ==
  {Punch("EMP001", "Punch In", 540, d) : d \in {Null, Some(50), Some(51)}}
  \cup {Punch("EMP002", "Punch Out", 1020, Some(25))}
  \cup {Punch("EMP001", "Punch In", 1980, Some(200))}

\* day 0 at 05:59, 06:00, 22:59 and 23:00, and 10:00 of day 1
HourPunches ==
  {Punch("EMP001", "Punch In", t, Null) : t \in {359, 360, 1379}}
  \cup {Punch("EMP001", "Punch Out", t, Null) : t \in {360, 1380, 2040}}
  \cup {Punch("EMP002", "Punch In", 360, Null)}

\* the rows of a sheet: spellings of two employee IDs, timestamps in both
\* patterns, out of range and unreadable, distances with and without a
\* number, and a row without a name
Dmy(day, month, hour, minute) ==
  [form |-> "dmy", day |-> day, month |-> month, hour |-> hour, minute |-> minute]
Iso(month, day, hour, minute) ==
  [form |-> "iso", day |-> day, month |-> month, hour |-> hour, minute |-> minute]
Row(id, name, type, time, distance) ==
  [name |-> name, employeeId |-> id, punchType |-> type,
   location |-> <<Some(28), Some(77)>>, timestamp |-> time,
   manualLocation |-> "Office HQ", distance |-> distance]

IdSpellings ==
  {<<"E", "M", "P", "1">>, <<"e", "m", "p", "1">>, <<"E", "m", "p", " ", "1">>,
   <<"L", "Y", "L", "B", "1">>, <<"l", "y", "l", "b", "1">>,
   <<"a", "y", "l", "b", " ", "1">>, <<>>}
JohnCell == <<"J", "o", "h", "n">>
PunchInCell == <<"P", "u", "n", "c", "h", " ", "I", "n">>
PunchOutCell == <<"p", "u", "n", "c", "h", " ", "O", "U", "T">>
SheetRows ==
  {Row(id, JohnCell, PunchInCell, Dmy(1, 1, 9, 0), <<"2", "5">>) : id \in IdSpellings}
  \cup {Row(<<"e", "m", "p", " ", "1">>, JohnCell, PunchOutCell, Iso(1, 1, 17, 0), d) :
          d \in {<<>>, <<"a", "b", "c">>, <<"-", "5">>, <<"1", "2", "m">>}}
  \cup {Row(<<"E", "M", "P", "1">>, JohnCell, PunchInCell, time, <<"2", "5">>) :
          time \in {[form |-> "empty"], [form |-> "text"], Dmy(32, 1, 9, 0),
                    Dmy(1, 13, 9, 0), Dmy(31, 2, 9, 0), Iso(13, 1, 9, 0)}}
  \cup {Row(<<"E", "M", "P", "1">>, <<>>, PunchInCell, Dmy(1, 1, 9, 0), <<"2", "5">>)}
\* the spellings of an employee ID in the path of a shift-history request
IdArgs == {<<"E", "M", "P", "1">>, <<"e", "m", "p", "1">>, <<"E", "m", "p", " ", "1">>}

\* the values Date.now() takes: 17:15 of day 0 and 10:00 of day 1
Instants == {1035, 2040}
\* the dateStr, startDate and endDate of a request: absent, day 0 or day 1
DateArgs == {Null, Some(0), Some(1)}
EmployeeArgs == {"EMP001", "EMP002"}
\* the limit of a top-workload request: parseInt(limit || '10'), taken >= 0
LimitArgs == {0, 2, 10}

SeqsUpTo(S, n) == UNION {[1..k -> S] : k \in 0..n}

NoResponse == [op |-> "none"]
\* no line of a sheet left to read, and the employee map not in the making
NoSheet == [rows |-> <<>>, next |-> 1]
NoIndex == [count |-> 0, employees |-> <<>>]

\* the events as parseCSV has returned them
InitWith(universe, n) ==
  /\ records \in SeqsUpTo(universe, n)
  /\ response = NoResponse
  /\ sheet = NoSheet
  /\ employeeIndex = NoIndex

Init == InitWith(PairingPunches, MaxEvents)
InitClock == InitWith(ClockPunches, MaxClockEvents)
InitDistance == InitWith(DistancePunches, MaxDistanceEvents)
InitWorkload == InitWith(WorkloadPunches, MaxWorkloadEvents)
InitCompliance == InitWith(CompliancePunches, MaxComplianceEvents)
InitHours == InitWith(HourPunches, MaxHourEvents)

\* events of EMP001 without name, with the ID for a name and with two names,
\* events of EMP002 without name and with one
IndexPunches ==
  {[Punch("EMP001", "Punch In", t, Null) EXCEPT !.name = n] :
     t \in {540, 600}, n \in {"", "EMP001", "John", "Johnny"}}
  \cup {[Punch("EMP002", "Punch In", t, Null) EXCEPT !.name = n] :
          t \in {540, 600}, n \in {"", "Jane"}}
InitIndex == InitWith(IndexPunches, MaxIndexEvents)

\* the rows fetched, before parseCSV has read the first of them
InitSheet ==
  /\ sheet \in {[rows |-> r, next |-> 1] : r \in SeqsUpTo(SheetRows, MaxSheetRows)}
  /\ records = <<>>
  /\ response = NoResponse
  /\ employeeIndex = NoIndex

(***************************************************************************)
(* Requests. A behaviour is one request cycle of the stateless server: a   *)
(* route handler takes the fetched records through processSheetData and    *)
(* one exported calculate... function, which reads Date.now(), and         *)
(* responds once (src/src/app/api/*/route.ts). A handler does so after    *)
(* fetchSheetData has returned and only when rows were fetched             *)
(* (rawData.length > 0); its answer from generated mock data when there    *)
(* are none is outside of this model.                                      *)
(***************************************************************************)
\* parseCSV, lines 148-160: one turn of the loop over the rows
ParseLine ==
  /\ sheet.next <= Len(sheet.rows)
  /\ LET record == parseRow(sheet.rows[sheet.next])
     IN records' = IF IsNull(record) THEN records ELSE Append(records, Val(record))
  /\ sheet' = [sheet EXCEPT !.next = @ + 1]
  /\ UNCHANGED <<response, employeeIndex>>

\* processSheetData, lines 312-326: one turn of the loop over the sorted
\* records, as far as the employee map goes
IndexRecord ==
  /\ employeeIndex.count < Len(records)
  /\ LET record == SortByTimestamp(records)[employeeIndex.count + 1]
     IN employeeIndex' = [count |-> employeeIndex.count + 1,
                          employees |-> IndexEmployee(employeeIndex.employees, record)]
  /\ UNCHANGED <<records, response, sheet>>

GetKPIs(dateStr, now) ==
  /\ response = NoResponse
  /\ sheet.next > Len(sheet.rows)
  /\ records # <<>>
  /\ response' = [op |-> "kpis", dateStr |-> dateStr,
                  body |-> calculateKPIs(processSheetData(records), dateStr, now)]
  /\ UNCHANGED <<records, sheet, employeeIndex>>

GetExceptions(dateStr, now) ==
  /\ response = NoResponse
  /\ sheet.next > Len(sheet.rows)
  /\ records # <<>>
  /\ response' = [op |-> "exceptions", dateStr |-> dateStr, now |-> now,
                  body |-> calculateExceptions(processSheetData(records), dateStr, now)]
  /\ UNCHANGED <<records, sheet, employeeIndex>>

GetEmployeeShifts(employeeId, startDate, endDate, now) ==
  /\ response = NoResponse
  /\ sheet.next > Len(sheet.rows)
  /\ records # <<>>
  /\ response' = [op |-> "shifts", employeeId |-> employeeId,
                  startDate |-> startDate, endDate |-> endDate,
                  today |-> formatDateKey(now),
                  body |-> calculateEmployeeShifts(processSheetData(records), employeeId,
                                                   startDate, endDate, now)]
  /\ UNCHANGED <<records, sheet, employeeIndex>>

GetLocations ==
  /\ response = NoResponse
  /\ sheet.next > Len(sheet.rows)
  /\ records # <<>>
  /\ response' = [op |-> "locations",
                  body |-> calculateLatestLocations(processSheetData(records))]
  /\ UNCHANGED <<records, sheet, employeeIndex>>

GetHourlyActivity(dateStr, now) ==
  /\ response = NoResponse
  /\ sheet.next > Len(sheet.rows)
  /\ records # <<>>
  /\ response' = [op |-> "hourly", dateStr |-> dateStr, now |-> now,
                  body |-> calculateHourlyActivity(processSheetData(records), dateStr, now)]
  /\ UNCHANGED <<records, sheet, employeeIndex>>

GetTopWorkload(dateStr, limit, now) ==
  /\ response = NoResponse
  /\ sheet.next > Len(sheet.rows)
  /\ records # <<>>
  /\ response' = [op |-> "workload", dateStr |-> dateStr, limit |-> limit, now |-> now,
                  body |-> calculateTopWorkload(processSheetData(records), dateStr,
                                                limit, now)]
  /\ UNCHANGED <<records, sheet, employeeIndex>>

Next ==
  \/ \E d \in DateArgs, t \in Instants : GetKPIs(d, t)
  \/ \E d \in DateArgs, t \in Instants : GetExceptions(d, t)
  \/ \E e \in EmployeeArgs, s \in DateArgs, d \in DateArgs, t \in Instants :
       GetEmployeeShifts(e, s, d, t)
  \/ GetLocations
  \/ \E d \in DateArgs, t \in Instants : GetHourlyActivity(d, t)
  \/ \E d \in DateArgs, n \in LimitArgs, t \in Instants : GetTopWorkload(d, n, t)

Spec == Init /\ [][Next]_vars
SpecClock == InitClock /\ [][Next]_vars
SpecDistance == InitDistance /\ [][Next]_vars
SpecWorkload == InitWorkload /\ [][Next]_vars
SpecCompliance == InitCompliance /\ [][Next]_vars
SpecHours == InitHours /\ [][Next]_vars

\* a sheet parsed row by row, then the shift history asked for under a
\* spelling of an employee ID (the route passes startDate only)
NextSheet ==
  \/ ParseLine
  \/ \E e \in IdArgs, s \in DateArgs, t \in Instants : GetEmployeeShifts(e, s, Null, t)

SpecSheet == InitSheet /\ [][NextSheet]_vars

\* the employee map in the making, one sorted record after the other
SpecIndex == InitIndex /\ [][IndexRecord]_vars

(***************************************************************************)
(* Vocabulary of the properties, stated on the fetched records themselves  *)
(***************************************************************************)
IsIn(p) == p.punchType = "Punch In"
IsOut(p) == p.punchType = "Punch Out"
TimeOfDay(t) == t % MinutesPerDay

\* the calendar day a kpis or exceptions response is about
ResponseNow == IF response.op = "kpis" THEN DateParse(response.body.serverTimestamp)
               ELSE response.now
ResponseDay == IF IsNull(response.dateStr) THEN ResponseNow \div MinutesPerDay
               ELSE Val(response.dateStr)

\* the rows of employee e on calendar day d
RowsOf(e, d) ==
  {a \in 1..Len(records) :
     records[a].employeeId = e /\ records[a].timestamp \div MinutesPerDay = d}
\* chronological order of two rows, rows of equal time in input order
Earlier(a, b) ==
  \/ records[a].timestamp < records[b].timestamp
  \/ records[a].timestamp = records[b].timestamp /\ a < b
\* a Punch In of the rows R that no Punch Out of R follows
IsOpenIn(a, R) == IsIn(records[a]) /\ ~\E b \in R : IsOut(records[b]) /\ Earlier(a, b)

AllEmployees == {records[a].employeeId : a \in 1..Len(records)}
BodyIndices == 1..Len(response.body)

\* the window of a shifts response and the pairs the scan makes of it
ResponseWindow ==
  ShiftWindow(processSheetData(records), response.employeeId, response.startDate,
              response.endDate, response.today * MinutesPerDay)
ResponsePairs == PairPunches(ResponseWindow, 1)
InsAfter(sorted, i) == {k \in (i + 1)..Len(sorted) : IsIn(sorted[k])}
OutsAfter(sorted, i) == {k \in (i + 1)..Len(sorted) : IsOut(sorted[k])}

IsClosedShift(sh) ==
  /\ ~IsNull(sh.shiftEnd)
  /\ ~IsNull(sh.durationMinutes)
  /\ DateParse(Val(sh.shiftEnd)) >= DateParse(sh.shiftStart)
  /\ Val(sh.durationMinutes) >= 0
IsOpenShift(sh) == IsNull(sh.shiftEnd) /\ IsNull(sh.durationMinutes)

\* C2: whatever the order of the rows, every returned shift is closed with
\* an end not before its start and a duration >= 0, or open with neither.
C2_ShiftsWellFormed ==
  response.op = "shifts" =>
    \A k \in BodyIndices : IsClosedShift(response.body[k]) \/ IsOpenShift(response.body[k])

\* a closed shift of positive duration from rows given latest first
C2_Witness ==
  /\ response.op = "shifts"
  /\ Len(records) >= 2
  /\ \A a \in 1..(Len(records) - 1) : records[a].timestamp > records[a + 1].timestamp
  /\ \E k \in BodyIndices :
       IsClosedShift(response.body[k]) /\ Val(response.body[k].durationMinutes) > 0

RECURSIVE SumSeq(_)
SumSeq(s) == IF s = <<>> THEN 0 ELSE Head(s) + SumSeq(Tail(s))

\* the minutes of the closed shifts that the shift history of employee e
\* lists for the single day d
ClosedShiftMinutes(e, d) ==
  LET shifts == calculateEmployeeShifts(processSheetData(records), e, Some(d), Some(d),
                                        d * MinutesPerDay)
  IN SumSeq([k \in 1..Len(shifts) |->
               IF IsNull(shifts[k].durationMinutes) THEN 0
               ELSE Val(shifts[k].durationMinutes)])
DayShiftMinutes(d) ==
  LET ids == EmployeeOrder(records)
  IN SumSeq([k \in 1..Len(ids) |-> ClosedShiftMinutes(ids[k], d)])

\* C3 (as amended): totalWorkingHoursToday is the sum over all employees of
\* the durations of the day's closed FIFO shifts, in hours rounded to one
\* decimal (to the nearest tenth, a half going up); open sessions and the
\* gaps between shifts add nothing.
C3_TotalHoursRounded ==
  response.op = "kpis" =>
    LET m == DayShiftMinutes(ResponseDay)
        tenths == response.body.totalWorkingHoursToday
    IN 6 * tenths - 3 <= m /\ m <= 6 * tenths + 2

\* C3 (as claimed): totalWorkingHoursToday equals the sum of the closed
\* shifts' durations in hours exactly.
C3_TotalHoursExact ==
  response.op = "kpis" =>
    response.body.totalWorkingHoursToday * 6 = DayShiftMinutes(ResponseDay)

\* two employees, 10 minutes and 8 hours worked: 8.2 hours
C3_Witness ==
  /\ response.op = "kpis"
  /\ ClosedShiftMinutes("EMP001", ResponseDay) = 10
  /\ ClosedShiftMinutes("EMP002", ResponseDay) = 480
  /\ response.body.totalWorkingHoursToday = 82

\* C5 (as claimed): every Punch In of the window is the start of exactly one
\* emitted shift.
C5_EveryInStartsOneShift ==
  response.op = "shifts" =>
    \A i \in InsAfter(ResponseWindow, 0) :
      Cardinality({k \in 1..Len(ResponsePairs) : ResponsePairs[k][1] = i}) = 1

\* the day list of employee e and the positions its closed FIFO shifts take
DayListOf(e, d) ==
  SortByTimestamp(SelectSeq(records,
    LAMBDA p : p.employeeId = e /\ p.timestamp \div MinutesPerDay = d))
ClosedPairsOf(sorted) ==
  {PairPunches(sorted, 1)[k] : k \in {n \in 1..Len(PairPunches(sorted, 1)) :
                                        PairPunches(sorted, 1)[n][2] # 0}}
BodyOfType(e, type) ==
  {k \in BodyIndices : response.body[k].employeeId = e /\ response.body[k].type = type}

\* C6 (as claimed): one PunchOutWithoutIn exception, of severity warning, for
\* every Punch Out that closes no shift and has no earlier Punch In left
\* unmatched (not the start of a closed shift), and none for any other.
C6_OrphanOutFlagged ==
  response.op = "exceptions" =>
    \A e \in AllEmployees :
      LET sorted == DayListOf(e, ResponseDay)
          closed == ClosedPairsOf(sorted)
          starts == {pr[1] : pr \in closed}
          ends == {pr[2] : pr \in closed}
          orphans == {i \in 1..Len(sorted) :
                        /\ IsOut(sorted[i])
                        /\ i \notin ends
                        /\ ~\E k \in 1..(i - 1) : IsIn(sorted[k]) /\ k \notin starts}
      IN /\ Cardinality(BodyOfType(e, "PunchOutWithoutIn")) = Cardinality(orphans)
         /\ \A k \in BodyOfType(e, "PunchOutWithoutIn") :
              response.body[k].severity = "warning"

\* C4: the status of a latest-location entry is decided by its distance
\* alone: none gives unknown, d <= 50 compliant, 50 < d <= 100 warning and
\* d > 100 breach (25 and 50 compliant, 75 warning, 150 breach).
C4_ComplianceByDistance ==
  response.op = "locations" =>
    /\ \A k \in BodyIndices :
         LET d == response.body[k].distance
             status == response.body[k].status
         IN /\ IsNull(d) => status = "unknown"
            /\ ~IsNull(d) /\ Val(d) <= 50 => status = "compliant"
            /\ ~IsNull(d) /\ 50 < Val(d) /\ Val(d) <= 100 => status = "warning"
            /\ ~IsNull(d) /\ Val(d) > 100 => status = "breach"
    /\ ComplianceStatus(Some(25)) = "compliant"
    /\ ComplianceStatus(Some(75)) = "warning"
    /\ ComplianceStatus(Some(150)) = "breach"

\* an employee whose latest event lies exactly 50 m away
C4_Witness ==
  /\ response.op = "locations"
  /\ \E k \in BodyIndices :
       response.body[k].distance = Some(50) /\ response.body[k].status = "compliant"

\* the exceptions of employee e that the rule with the given note text made
BodyOfNote(e, text) ==
  {k \in BodyIndices : response.body[k].employeeId = e /\ response.body[k].notes[1] = text}
ElapsedAt(t) == response.now - t
OpenInsOf(e) ==
  {a \in RowsOf(e, ResponseDay) : IsOpenIn(a, RowsOf(e, ResponseDay))}

\* C7 (as amended): a Punch In that no Punch Out follows yields an
\* open-session exception exactly when at least 8 hours have passed since
\* it; the exception is critical when at least 12 hours have passed and a
\* warning otherwise; a younger open session yields none.
C7_OpenSessionFromThreshold ==
  response.op = "exceptions" =>
    \A e \in AllEmployees :
      LET made == BodyOfNote(e, "Open session for")
          due == {a \in OpenInsOf(e) : ElapsedAt(records[a].timestamp) >= 8 * 60}
      IN /\ \A a \in OpenInsOf(e) :
              Cardinality({k \in made : response.body[k].timestamp
                                          = toISOString(records[a].timestamp)})
                = Cardinality({b \in due : records[b].timestamp = records[a].timestamp})
         /\ Cardinality(made) = Cardinality(due)
         /\ \A k \in made :
              /\ response.body[k].type = "OpenSession"
              /\ response.body[k].severity =
                   IF ElapsedAt(DateParse(response.body[k].timestamp)) >= 12 * 60
                   THEN "critical" ELSE "warning"

\* C7 (as claimed): the exception is made only when more than 8 hours have
\* passed, and it is critical only when more than 12 hours have passed.
C7_OpenSessionPastThreshold ==
  response.op = "exceptions" =>
    \A e \in AllEmployees :
      \A k \in BodyOfNote(e, "Open session for") :
        /\ ElapsedAt(DateParse(response.body[k].timestamp)) > 8 * 60
        /\ (response.body[k].severity = "critical")
             = (ElapsedAt(DateParse(response.body[k].timestamp)) > 12 * 60)

\* two open sessions, one exactly 8 hours old and reported, one a minute younger and not
C7_Witness ==
  /\ response.op = "exceptions"
  /\ \E a, b \in OpenInsOf("EMP001") :
       /\ ElapsedAt(records[a].timestamp) = 8 * 60
       /\ ElapsedAt(records[b].timestamp) = 8 * 60 - 1
  /\ \E k \in BodyOfNote("EMP001", "Open session for") :
       response.body[k].severity = "warning"

\* C8 (as claimed), for an employee with a single Punch In that no Punch Out
\* follows: if that Punch In is older than 12 hours, exactly one exception of
\* type OpenSession and severity critical is emitted for the employee.
C8_OneCriticalOpenSession ==
  response.op = "exceptions" =>
    \A e \in AllEmployees :
      (/\ Cardinality(OpenInsOf(e)) = 1
       /\ \A a \in OpenInsOf(e) : ElapsedAt(records[a].timestamp) > 12 * 60)
      => Cardinality({k \in BodyOfType(e, "OpenSession") :
                        response.body[k].severity = "critical"}) = 1

\* C9: a late-arrival exception is emitted for an employee and day exactly
\* when the earliest Punch In of the day has a time of day after 09:15; there
\* is at most one; it is critical when more than 60 minutes after 09:00 and a
\* warning otherwise, and its note carries the minutes after 09:00.
C9_LateArrival ==
  response.op = "exceptions" =>
    \A e \in AllEmployees :
      LET insOfDay == {a \in RowsOf(e, ResponseDay) : IsIn(records[a])}
          made == BodyOfNote(e, "Late arrival by")
      IN IF insOfDay # {}
            /\ TimeOfDay(MinOf({records[a].timestamp : a \in insOfDay})) > 9 * 60 + 15
         THEN LET firstIn == MinOf({records[a].timestamp : a \in insOfDay})
                  late == TimeOfDay(firstIn) - 9 * 60
              IN /\ Cardinality(made) = 1
                 /\ \A k \in made :
                      /\ response.body[k].timestamp = toISOString(firstIn)
                      /\ response.body[k].notes[2] = late
                      /\ response.body[k].severity =
                           IF late > 60 THEN "critical" ELSE "warning"
         ELSE made = {}

\* an arrival at 10:00, 60 minutes late, is a warning although a later Punch In exists
C9_Witness ==
  /\ response.op = "exceptions"
  /\ \E k \in BodyOfNote("EMP001", "Late arrival by") :
       /\ response.body[k].notes[2] = 60
       /\ response.body[k].severity = "warning"
  /\ \E a \in RowsOf("EMP001", ResponseDay) :
       IsIn(records[a]) /\ TimeOfDay(records[a].timestamp) > 10 * 60

\* C10: every event of the day with a distance above 100 yields exactly one
\* LocationBreach exception with the event's timestamp and distance, critical
\* when the distance is above 200 and a warning otherwise; events with no
\* distance or a distance of at most 100 yield none.
C10_LocationBreach ==
  response.op = "exceptions" =>
    \A e \in AllEmployees :
      LET rows == RowsOf(e, ResponseDay)
          made == BodyOfType(e, "LocationBreach")
          far == {a \in rows : ~IsNull(records[a].distanceMeters)
                               /\ Val(records[a].distanceMeters) > 100}
          same(k, a) == /\ response.body[k].timestamp = toISOString(records[a].timestamp)
                        /\ response.body[k].distance = records[a].distanceMeters
      IN /\ Cardinality(made) = Cardinality(far)
         /\ \A a \in far :
              Cardinality({k \in made : same(k, a)})
                = Cardinality({b \in far : /\ records[b].timestamp = records[a].timestamp
                                           /\ records[b].distanceMeters
                                                = records[a].distanceMeters})
         /\ \A k \in made :
              /\ \E a \in far : same(k, a)
              /\ response.body[k].severity =
                   IF Val(response.body[k].distance) > 200 THEN "critical" ELSE "warning"

\* a paired day: 100 m at the Punch In gives nothing, 201 m at the Punch Out a critical breach
C10_Witness ==
  /\ response.op = "exceptions"
  /\ \E a \in RowsOf("EMP001", ResponseDay) : records[a].distanceMeters = Some(100)
  /\ Cardinality(BodyOfType("EMP001", "LocationBreach")) = 1
  /\ \E k \in BodyOfType("EMP001", "LocationBreach") :
       response.body[k].distance = Some(201) /\ response.body[k].severity = "critical"

\* the closed set of exception types, src/src/types/index.ts:94-98
ExceptionTypes == {"OpenSession", "PunchOutWithoutIn", "LocationBreach", "LocationMissing"}

\* C11 (as claimed): every emitted exception has a type of the closed type
\* set and status open, and the type identifies the rule: two exceptions
\* made by different rules (told apart by the text of their note) never
\* carry the same type.
C11_TypeIdentifiesRule ==
  response.op = "exceptions" =>
    /\ \A k \in BodyIndices :
         response.body[k].type \in ExceptionTypes /\ response.body[k].status = "open"
    /\ \A k, l \in BodyIndices :
         response.body[k].notes[1] # response.body[l].notes[1]
           => response.body[k].type # response.body[l].type

\* C12: in the list of exceptions no warning stands before a critical, and
\* of two exceptions of equal severity the one standing first is not the
\* older one, whichever employees they belong to.
C12_ExceptionsOrdered ==
  response.op = "exceptions" =>
    \A k, l \in BodyIndices :
      k < l =>
        /\ response.body[k].severity = "warning" => response.body[l].severity = "warning"
        /\ response.body[k].severity = response.body[l].severity
             => DateParse(response.body[k].timestamp) >= DateParse(response.body[l].timestamp)

\* a warning pushed first stands last, and of the criticals of two
\* employees a younger one pushed later stands before an older one
C12_Witness ==
  /\ response.op = "exceptions"
  /\ response.body # <<>>
  /\ response.body[Len(response.body)].id = 1
  /\ response.body[Len(response.body)].severity = "warning"
  /\ \E k, l \in BodyIndices :
       /\ k < l
       /\ response.body[k].id > response.body[l].id
       /\ response.body[k].severity = "critical"
       /\ response.body[l].severity = "critical"
       /\ response.body[k].employeeId # response.body[l].employeeId
       /\ DateParse(response.body[k].timestamp) > DateParse(response.body[l].timestamp)

\* what the Exception Detector lists for the day of a kpis response, run at
\* the same instant on the same records
DetectedForKpiDay ==
  calculateExceptions(processSheetData(records), response.dateStr, ResponseNow)

\* C13 (as claimed): exceptionsCount of the KPI snapshot is the number of
\* late-arrival, open-session and location-breach exceptions that
\* calculateExceptions lists for the same day and the same events.
C13_CountMatchesDetector ==
  response.op = "kpis" =>
    response.body.exceptionsCount =
      Cardinality({k \in 1..Len(DetectedForKpiDay) :
                     DetectedForKpiDay[k].notes[1] \in
                       {"Late arrival by", "Open session for", "Distance exceeds threshold"}})

\* the rows of calendar day d
DayRows(d) == {a \in 1..Len(records) : records[a].timestamp \div MinutesPerDay = d}
WithDistance(R) == {a \in R : ~IsNull(records[a].distanceMeters)}

\* C14: onSiteCompliancePct is 100 when no event of the day carries a
\* distance; otherwise it is 100 * c / n rounded to the nearest whole number
\* (a half going up), n the number of the day's events that carry a distance
\* and c the number of those at most 50 m away; it lies in 0..100.
C14_CompliancePct ==
  response.op = "kpis" =>
    LET measured == WithDistance(DayRows(ResponseDay))
        n == Cardinality(measured)
        c == Cardinality({a \in measured : Val(records[a].distanceMeters) <= 50})
        pct == response.body.onSiteCompliancePct
    IN /\ pct \in 0..100
       /\ n = 0 => pct = 100
       /\ n > 0 => /\ 2 * n * pct - n <= 200 * c
                   /\ 200 * c < 2 * n * pct + n

\* four events of the day, one without distance and two of the other three
\* compliant (25 m and 50 m against 51 m): 67 per cent
C14_Witness ==
  /\ response.op = "kpis"
  /\ Cardinality(DayRows(ResponseDay)) = 4
  /\ Cardinality(WithDistance(DayRows(ResponseDay))) = 3
  /\ \E a, b, c \in DayRows(ResponseDay) :
       /\ records[a].distanceMeters = Some(25)
       /\ records[b].distanceMeters = Some(50)
       /\ records[c].distanceMeters = Some(51)
  /\ response.body.onSiteCompliancePct = 67

\* the repository built from no rows at all
EmptyData == processSheetData(<<>>)

\* the rows of the employee and date range of a shifts response
ShiftRangeRows ==
  {a \in 1..Len(records) :
     /\ records[a].employeeId = response.employeeId
     /\ \/ IsNull(response.startDate) /\ IsNull(response.endDate)
        \/ /\ IsNull(response.startDate)
              \/ records[a].timestamp \div MinutesPerDay >= Val(response.startDate)
           /\ records[a].timestamp \div MinutesPerDay
                <= (IF IsNull(response.endDate) THEN response.today
                    ELSE Val(response.endDate))}

IsZeroKPIs(kpis) ==
  /\ kpis.activeEmployeesCount = 0
  /\ kpis.totalWorkingHoursToday = 0
  /\ kpis.onSiteCompliancePct = 100
  /\ kpis.exceptionsCount = 0
IsZeroActivity(buckets) ==
  /\ buckets # <<>>
  /\ \A k \in 1..Len(buckets) : buckets[k].punchIn = 0 /\ buckets[k].punchOut = 0

\* every derivation on the repository built from no rows
EmptyInputDegrades ==
  /\ \A d \in DateArgs, t \in Instants :
       /\ IsZeroKPIs(calculateKPIs(EmptyData, d, t))
       /\ IsZeroActivity(calculateHourlyActivity(EmptyData, d, t))
       /\ calculateExceptions(EmptyData, d, t) = <<>>
       /\ \A n \in LimitArgs : calculateTopWorkload(EmptyData, d, n, t) = <<>>
       /\ \A e \in EmployeeArgs, s \in DateArgs :
            calculateEmployeeShifts(EmptyData, e, s, d, t) = <<>>
  /\ calculateLatestLocations(EmptyData) = <<>>

\* C15: built from no rows, and asked about a day or a range that holds no
\* event, every derivation is defined and has its empty form: the KPI
\* snapshot 0 active employees, 0 hours, 100 per cent compliance and 0
\* exceptions; top workload, exceptions, latest locations and shift history
\* the empty list; the hourly activity buckets with zero counts only.
C15_EmptyDegrades ==
  /\ EmptyInputDegrades
  /\ response.op \in {"kpis", "hourly", "workload", "exceptions"}
       /\ DayRows(ResponseDay) = {}
     => CASE response.op = "kpis" -> IsZeroKPIs(response.body)
          [] response.op = "hourly" -> IsZeroActivity(response.body)
          [] OTHER -> response.body = <<>>
  /\ response.op = "shifts" /\ ShiftRangeRows = {} => response.body = <<>>

\* the KPI snapshot of a day without events, from rows that all lie on another day
C15_Witness ==
  /\ response.op = "kpis"
  /\ records # <<>>
  /\ DayRows(ResponseDay) = {}
  /\ IsZeroKPIs(response.body)

\* the place of an employee ID in the order of the IDs
IdRank(id) == CHOOSE n \in 1..3 : <<"EMP001", "EMP002", "EMP003">>[n] = id

\* C16 (as claimed): the top-workload list is sorted by totalHours
\* descending, and of two entries with equal totalHours the one with the
\* smaller employee ID stands first.
C16_SortedByHoursThenId ==
  response.op = "workload" =>
    \A k, l \in BodyIndices :
      k < l =>
        \/ response.body[k].totalHours > response.body[l].totalHours
        \/ /\ response.body[k].totalHours = response.body[l].totalHours
           /\ IdRank(response.body[k].employeeId) < IdRank(response.body[l].employeeId)

\* the employees with paired hours on day d: a Punch In followed by a Punch Out
EmployeesWithPairedHours(d) ==
  {e \in AllEmployees :
     \E a, b \in RowsOf(e, d) : IsIn(records[a]) /\ IsOut(records[b]) /\ Earlier(a, b)}
MinOfTwo(a, b) == IF a < b THEN a ELSE b

\* C17 (as claimed): the top-workload list has exactly
\* min(limit, number of employees with paired hours on the day) entries.
C17_LengthIsMinOfLimitAndPaired ==
  response.op = "workload" =>
    Len(response.body)
      = MinOfTwo(response.limit, Cardinality(EmployeesWithPairedHours(ResponseDay)))

\* the records rearranged by the permutation f of their positions
Permuted(f) == [a \in 1..Len(records) |-> records[f[a]]]

\* C18 (as claimed): every rearrangement of the input rows gives the same
\* top-workload list, entry by entry.
C18_SameListForPermutedInput ==
  response.op = "workload" =>
    \A f \in Permutations(1..Len(records)) :
      calculateTopWorkload(processSheetData(Permuted(f)), response.dateStr,
                           response.limit, response.now) = response.body

\* the derivation of the response run again at instant t on the same records
\* and the same window: the day or the date range the first run resolved,
\* passed explicitly. The KPI snapshot is compared but for serverTimestamp.
Rerun(t) ==
  LET data == processSheetData(records)
  IN CASE response.op = "kpis" ->
            [calculateKPIs(data, Some(ResponseDay), t)
               EXCEPT !.serverTimestamp = response.body.serverTimestamp]
       [] response.op = "hourly" -> calculateHourlyActivity(data, Some(ResponseDay), t)
       [] response.op = "workload" ->
            calculateTopWorkload(data, Some(ResponseDay), response.limit, t)
       [] response.op = "locations" -> calculateLatestLocations(data)
       [] response.op = "exceptions" -> calculateExceptions(data, Some(ResponseDay), t)
       [] response.op = "shifts" ->
            calculateEmployeeShifts(data, response.employeeId, response.startDate,
              IF IsNull(response.startDate) /\ IsNull(response.endDate) THEN Null
              ELSE IF IsNull(response.endDate) THEN Some(response.today)
              ELSE response.endDate, t)

\* a list of exceptions without its open-session entries and without the ids
WithoutOpenSessions(list) ==
  LET kept == SelectSeq(list, LAMBDA e : e.notes[1] # "Open session for")
  IN [k \in 1..Len(kept) |-> [kept[k] EXCEPT !.id = 0]]

C20_OnlyInsAllOpen ==
  response.op = "shifts" =>
    LET rows == ShiftRangeRows
        n == Cardinality(rows)
    IN (n >= 1 /\ \A a \in rows : IsIn(records[a]))
       => /\ Len(response.body) = n
          /\ \A k \in BodyIndices :
               /\ IsOpenShift(response.body[k])
               /\ ~IsClosedShift(response.body[k])
               /\ Cardinality({l \in BodyIndices :
                                 response.body[l].shiftStart = response.body[k].shiftStart})
                    = Cardinality({a \in rows : toISOString(records[a].timestamp)
                                                  = response.body[k].shiftStart})

\* three Punch Ins of the employee at two different times and no Punch Out
\* of theirs, beside a row of another employee: three open shifts
C20_Witness ==
  /\ response.op = "shifts"
  /\ Cardinality(ShiftRangeRows) = 3
  /\ \A a \in ShiftRangeRows : IsIn(records[a])
  /\ \E a, b \in ShiftRangeRows : records[a].timestamp < records[b].timestamp
  /\ \E a \in 1..Len(records) : records[a].employeeId # response.employeeId
  /\ Len(response.body) = 3
  /\ \A k \in BodyIndices : IsOpenShift(response.body[k])

\* the rows of day d in hour h of the given type
RowsInHour(d, h, type) ==
  {a \in DayRows(d) : /\ TimeOfDay(records[a].timestamp) \div 60 = h
                      /\ records[a].punchType = type}

\* C21: the hourly activity has exactly 17 buckets, the n-th labelled with
\* the two digits of hour n + 5 (06:00 to 22:00 in ascending order); the
\* bucket of hour h counts as punchIn the Punch Ins and as punchOut the
\* Punch Outs of the day whose hour of day is h, each once, and no other
\* event; an event before 06:00 or from 23:00 on is in no bucket.
C21_SeventeenHourBuckets ==
  response.op = "hourly" =>
    /\ Len(response.body) = 17
    /\ \A n \in 1..17 :
         /\ response.body[n].hour = <<(n + 5) \div 10, (n + 5) % 10>>
         /\ response.body[n].punchIn
              = Cardinality(RowsInHour(ResponseDay, n + 5, "Punch In"))
         /\ response.body[n].punchOut
              = Cardinality(RowsInHour(ResponseDay, n + 5, "Punch Out"))

\* a Punch In at 05:59 in no bucket, a Punch In and a Punch Out at 06:00 in the first
C21_Witness ==
  /\ response.op = "hourly"
  /\ Cardinality(DayRows(ResponseDay)) = 3
  /\ \E a \in DayRows(ResponseDay) : TimeOfDay(records[a].timestamp) = 359
  /\ response.body[1] = [hour |-> <<0, 6>>, punchIn |-> 1, punchOut |-> 1]
  /\ \A n \in 2..17 : response.body[n].punchIn = 0 /\ response.body[n].punchOut = 0

\* the raw ID cells of the rows read so far
CellsRead == {sheet.rows[k].employeeId : k \in 1..(sheet.next - 1)}
\* two spellings that differ by letter case and blanks only
SameButCaseAndSpace(x, y) == toUpperCase(RemoveSpaces(x)) = toUpperCase(RemoveSpaces(y))

\* C22: two spellings that differ only by letter case or white space are
\* normalized to the same ID, and normalizing a normalized ID changes
\* nothing; so the ID of every event is its own normal form.
C22_NormalizeCanonical ==
  /\ \A x, y \in CellsRead :
       SameButCaseAndSpace(x, y) => normalizeEmployeeId(x) = normalizeEmployeeId(y)
  /\ \A x \in CellsRead :
       normalizeEmployeeId(normalizeEmployeeId(x)) = normalizeEmployeeId(x)
  /\ \A k \in 1..Len(records) :
       normalizeEmployeeId(records[k].employeeId) = records[k].employeeId

\* the typo prefix in small and in capital letters: two rows, one employee ID
C22_Witness ==
  /\ sheet.next = 3
  /\ sheet.rows[1].employeeId = <<"l", "y", "l", "b", "1">>
  /\ sheet.rows[2].employeeId = <<"L", "Y", "L", "B", "1">>
  /\ Len(records) = 2
  /\ records[1].employeeId = <<"A", "Y", "L", "B", "1">>
  /\ records[2].employeeId = records[1].employeeId

\* the employee IDs under which processSheetData groups the events
GroupedIds == {records[k].employeeId : k \in 1..Len(records)}

\* C23: a shift-history request made with any spelling of an employee ID
\* gets the shifts that the request with the canonical ID gets, and no two
\* employee groups differ by letter case and blanks only.
C23_AnySpellingSameShifts ==
  /\ \A x, y \in GroupedIds : SameButCaseAndSpace(x, y) => x = y
  /\ response.op = "shifts" =>
       response.body =
         calculateEmployeeShifts(processSheetData(records),
                                 normalizeEmployeeId(response.employeeId),
                                 response.startDate, response.endDate,
                                 response.today * MinutesPerDay)

\* the rows read so far / among them those with an employee ID and a
\* timestamp that parseTimestamp accepts
RowsRead == 1..(sheet.next - 1)
RowsWithIdAndTime ==
  {k \in RowsRead :
     /\ normalizeEmployeeId(sheet.rows[k].employeeId) # <<>>
     /\ ~IsNull(parseTimestamp(sheet.rows[k].timestamp))}

\* C24: a row yields no event exactly when its employee ID normalizes to the
\* empty string or its timestamp is not accepted; every other row, the one
\* with an empty name included, yields exactly one event.
C24_RowDroppedOnlyWithoutIdOrTime ==
  Len(records) = Cardinality(RowsWithIdAndTime)

\* C25: the distance of every event is absent or a non-negative number.
C25_DistanceAbsentOrNonNegative ==
  \A k \in 1..Len(records) :
    IsNull(records[k].distanceMeters) \/ Val(records[k].distanceMeters) >= 0

\* the index in records of the chronologically last event of an employee
\* (of events at the same minute, the one that comes last in the input)
LastEventOf(id) ==
  CHOOSE k \in 1..Len(records) :
    /\ records[k].employeeId = id
    /\ \A l \in 1..Len(records) :
         records[l].employeeId = id =>
           \/ records[l].timestamp < records[k].timestamp
           \/ records[l].timestamp = records[k].timestamp /\ l <= k
EntriesOf(id) == {k \in 1..Len(response.body) : response.body[k].employeeId = id}
\* the entry is made of the event: its timestamp, distance and status
EntryBuiltFrom(entry, event) ==
  /\ entry.timestamp = toISOString(event.timestamp)
  /\ entry.distance = event.distanceMeters
  /\ entry.status = ComplianceStatus(event.distanceMeters)

\* a location of which the first two parts are numbers
HasCoordinates(location) ==
  Len(location) >= 2 /\ location[1] # Null /\ location[2] # Null

C27_NoShiftLongerThanADay ==
  response.op = "shifts" =>
    \A k \in 1..Len(response.body) :
      ~IsNull(response.body[k].durationMinutes) =>
        Val(response.body[k].durationMinutes) <= 24 * 60

\* the place of input event a in the sorted list: after the events with a
\* smaller timestamp and the earlier ones of the input with the same
PlaceOf(a) ==
  1 + Cardinality({b \in 1..Len(records) :
                     \/ records[b].timestamp < records[a].timestamp
                     \/ records[b].timestamp = records[a].timestamp /\ b < a})
\* the input events of a group, as places of the sorted list
PlacesOfEmployee(id) == {PlaceOf(a) : a \in {b \in 1..Len(records) : records[b].employeeId = id}}
PlacesOfDate(d) ==
  {PlaceOf(a) : a \in {b \in 1..Len(records) : formatDateKey(records[b].timestamp) = d}}
\* group holds the events of the sorted list at the given places, in order
IsGroupOf(group, sorted, places) ==
  /\ Len(group) = Cardinality(places)
  /\ \A k \in 1..Len(group) :
       \E p \in places :
         /\ Cardinality({q \in places : q < p}) = k - 1
         /\ group[k] = sorted[p]

\* C28: processSheetData returns the events in ascending order of time,
\* events of the same time in input order, each input event exactly once;
\* each employee group and each date group holds exactly the events of that
\* employee or date, in the order of the sorted list.
C28_SortedStableGroups ==
  LET data == processSheetData(records)
  IN /\ Len(data.punches) = Len(records)
     /\ \A a \in 1..Len(records) : data.punches[PlaceOf(a)] = records[a]
     /\ \A k \in 1..(Len(data.punches) - 1) :
          data.punches[k].timestamp <= data.punches[k + 1].timestamp
     /\ DOMAIN data.punchesByEmployee = GroupedIds
     /\ \A id \in GroupedIds :
          IsGroupOf(data.punchesByEmployee[id], data.punches, PlacesOfEmployee(id))
     /\ DOMAIN data.punchesByDate = {formatDateKey(records[a].timestamp) : a \in 1..Len(records)}
     /\ \A d \in DOMAIN data.punchesByDate :
          IsGroupOf(data.punchesByDate[d], data.punches, PlacesOfDate(d))

\* a request served from four rows out of time order, two of them of 09:00:
\* the two come first, the one with 50 m before the one with 51 m as in the
\* input
C28_Witness ==
  /\ response.op = "kpis"
  /\ Len(records) = 4
  /\ records[1].timestamp = 1980
  /\ records[2].timestamp = 540 /\ records[2].distanceMeters = Some(50)
  /\ records[3].timestamp = 1020
  /\ records[4].timestamp = 540 /\ records[4].distanceMeters = Some(51)
  /\ processSheetData(records).punches = <<records[2], records[4], records[3], records[1]>>

\* the names stored in an employee map under an ID
NamesOf(employees, id) == {employees[i].name : i \in {j \in 1..Len(employees) : employees[j].id = id}}
IsPlaceholder(name, id) == name = "" \/ name = id
\* the records indexed so far
Indexed == SubSeq(SortByTimestamp(records), 1, employeeIndex.count)

\* every employee ID with an indexed event has exactly one entry
EveryIndexedIdHasEntry ==
  \A k \in 1..Len(Indexed) :
    Cardinality({i \in 1..Len(employeeIndex.employees) :
                   employeeIndex.employees[i].id = Indexed[k].employeeId}) = 1

\* one event indexed: the name stored under its ID becomes the event's name
\* if that is not empty and the stored name is a placeholder, and stays as
\* it is otherwise; the names stored under the other IDs stay
NameStep ==
  LET event == SortByTimestamp(records)[employeeIndex.count + 1]
  IN \A id \in {"EMP001", "EMP002"} :
       \A old \in NamesOf(employeeIndex.employees, id) :
         NamesOf(employeeIndex'.employees, id) =
           {IF event.employeeId = id /\ event.name # "" /\ IsPlaceholder(old, id)
            THEN event.name ELSE old}

\* C29: while the events are indexed one after another, a stored name is
\* replaced only by a later non-empty name and only while it is a
\* placeholder (empty or the ID); a real name is never changed and an empty
\* name never replaces anything; every ID with an event has an entry.
C29_NameOnlyUpgraded == [][NameStep]_vars /\ []EveryIndexedIdHasEntry

\* EMP001 first without a name, then as John, then as Johnny: John is kept
C29_Witness ==
  /\ employeeIndex.count = 3
  /\ Len(records) = 3
  /\ \A k \in 1..3 : records[k].employeeId = "EMP001"
  /\ records[1].name = "" /\ records[1].timestamp = 540
  /\ records[2].name = "John" /\ records[2].timestamp = 600
  /\ records[3].name = "Johnny" /\ records[3].timestamp = 600
  /\ employeeIndex.employees = <<[id |-> "EMP001", name |-> "John"]>>

\* the scan behind a shift-history response: the employee's events of the
\* window in time order, and the shifts as pairs of positions in it
ScannedPunches ==
  ShiftWindow(processSheetData(records), response.employeeId, response.startDate,
              response.endDate, response.today * MinutesPerDay)
ScannedPairs == PairPunches(ScannedPunches, 1)

\* the events of employee id on day d, and the time from the first of them
\* to the last
DayEventsOf(id, d) ==
  SelectSeq(records, LAMBDA p : p.employeeId = id /\ formatDateKey(p.timestamp) = d)
DaySpanOf(id, d) ==
  LET times == {DayEventsOf(id, d)[k].timestamp : k \in 1..Len(DayEventsOf(id, d))}
  IN IF times = {} THEN 0
     ELSE (CHOOSE x \in times : \A y \in times : y <= x) - MinOf(times)

\* C30: in one scan no event is the start or the end of more than one shift
\* nor the start of one and the end of another, and the shifts do not
\* overlap: in chronological order, a shift starts at or after the end of
\* every closed shift before it; the minutes that the employee's day total
\* counts fit between the first and the last event of the day.
C30_ShiftsDisjoint ==
  response.op = "shifts" =>
    LET pairs == ScannedPairs
        n == Len(response.body)
    IN /\ Len(pairs) = n
       /\ \A k, l \in 1..n :
            k < l =>
              /\ pairs[k][1] # pairs[l][1]
              /\ pairs[k][1] # pairs[l][2] /\ pairs[k][2] # pairs[l][1]
              /\ pairs[k][2] # 0 => pairs[k][2] # pairs[l][2]
       \* the body lists the latest shift first
       /\ \A k, l \in 1..n :
            k > l /\ ~IsNull(response.body[k].shiftEnd) =>
              DateParse(Val(response.body[k].shiftEnd)) <= DateParse(response.body[l].shiftStart)
       /\ \A d \in {formatDateKey(records[a].timestamp) : a \in 1..Len(records)} :
            calculateWorkingHours(DayEventsOf(response.employeeId, d)).totalMinutes
              <= DaySpanOf(response.employeeId, d)

\* In 09:00, Out 09:10, In 09:20, Out 09:20 of one employee: two closed
\* shifts, the second starting after the end of the first
C30_Witness ==
  /\ response.op = "shifts"
  /\ Len(records) = 4
  /\ \A k \in 1..4 : records[k].employeeId = response.employeeId
  /\ Len(response.body) = 2
  /\ response.body[2].shiftStart = toISOString(540)
  /\ response.body[2].shiftEnd = Some(toISOString(550))
  /\ response.body[1].shiftStart = toISOString(560)
  /\ response.body[1].shiftEnd = Some(toISOString(560))

====
